---------------------------- MODULE Spec2Model ----------------------------
(***************************************************************************)
(* A model of the quantitative core of the digital-stratification          *)
(* repository: the BalanceIndex calculator (balance_calculator.py), the    *)
(* statistical analyses of DigitalStratificationAnalysis                   *)
(* (statistical_analysis.py) and the ManuscriptReproducer pipeline         *)
(* (reproduce_results.py).                                                 *)
(*                                                                         *)
(* Numbers.  The program computes in IEEE doubles.  The model computes in  *)
(* exact rationals <<n, d>> (d > 0, lowest terms), and keeps the IEEE      *)
(* special values as tagged records: [kind |-> "num", q |-> <<n, d>>],     *)
(* [kind |-> "inf"], [kind |-> "nan"].  Inputs are drawn from a finite     *)
(* grid of rationals.                                                      *)
(***************************************************************************)
EXTENDS Integers, Sequences, FiniteSets, TLC

VARIABLES
    obj,        \* the BalanceIndex object of the latest constructor call, or NoObject
    out,        \* what the latest BalanceIndex call returned or raised
    main_data,  \* DigitalStratificationAnalysis.main_data: a sequence of rows
    anova_out,  \* what the latest anova_analysis call returned or raised
    time_series_data, \* DigitalStratificationAnalysis.time_series_data: a sequence of rows
    ratio_out,  \* what the latest digital_stratification_ratio call returned or raised
    corr_out,   \* what the latest correlation_analysis call returned, printed or raised
    trend_out,  \* what the latest time_series_analysis call returned or raised
    scipy_checks,   \* whether the installed scipy validates f_oneway's arguments
    data_files,     \* the two CSV files under data_path: a table, or Missing
    stats_analyzer, \* ManuscriptReproducer.stats_analyzer: "None" or "constructed"
    stats_results,  \* what the latest reproduce_statistical_results call returned or raised
    validation,     \* what the latest validate_manuscript_claims call returned or raised
    run_out         \* what the latest run_complete_reproduction call returned

\* The state the ManuscriptReproducer pipeline adds to that of the analyses.
reproducerVars == <<scipy_checks, data_files, stats_analyzer, stats_results,
                    validation, run_out>>

vars == <<obj, out, main_data, anova_out, time_series_data, ratio_out, corr_out,
          trend_out, scipy_checks, data_files, stats_analyzer, stats_results,
          validation, run_out>>

----------------------------------------------------------------------------
(* Bounds of the model *)

\* Percentages are multiples of 1/PctScale percent.
PctScale == 1
\* Constructor arguments range from Overshoot grid steps below 0 to Overshoot above 100.
Overshoot == 2
\* main_data has at most MaxRows rows.
MaxRows == 3
\* balance_index values of main_data are multiples of 1/BiDen in [0, 1].
BiDen == 2
\* time_series_data has at most MaxTsRows rows.
MaxTsRows == 4
\* balance_index_47_countries.csv has at most MaxRecords records.
MaxRecords == 2

----------------------------------------------------------------------------
(* Exact rational arithmetic *)

Abs(x) == IF x < 0 THEN -x ELSE x

RECURSIVE GCD(_, _)
GCD(a, b) == IF b = 0 THEN a ELSE GCD(b, a % b)

\* The rational n/d (d # 0) in lowest terms with a positive denominator.
Frac(n, d) ==
    LET s == IF d < 0 THEN -1 ELSE 1
        g == GCD(Abs(n), Abs(d))
    IN  <<(s * n) \div g, (s * d) \div g>>

Zero == Frac(0, 1)
One == Frac(1, 1)
RInt(k) == Frac(k, 1)

RAdd(a, b) == Frac(a[1] * b[2] + b[1] * a[2], a[2] * b[2])
RSub(a, b) == Frac(a[1] * b[2] - b[1] * a[2], a[2] * b[2])
RMul(a, b) == Frac(a[1] * b[1], a[2] * b[2])
\* a / b for b # 0
RQuot(a, b) == Frac(a[1] * b[2], a[2] * b[1])
RSq(a) == RMul(a, a)
RLe(a, b) == a[1] * b[2] <= b[1] * a[2]
RLt(a, b) == a[1] * b[2] < b[1] * a[2]
RGe(a, b) == RLe(b, a)
RGt(a, b) == RLt(b, a)
RMax(a, b) == IF RGe(a, b) THEN a ELSE b
RMin(a, b) == IF RLe(a, b) THEN a ELSE b

\* IEEE values
Num(q) == [kind |-> "num", q |-> q]
Inf == [kind |-> "inf"]
NaN == [kind |-> "nan"]


----------------------------------------------------------------------------
(* balance_calculator.py: class BalanceIndex *)

NoObject == [exists |-> FALSE]
Hundred == RInt(100)

\* The arguments a caller may pass: the grid from below 0 to above 100.
PercentInputs ==
    {Frac(k, PctScale) : k \in (0 - Overshoot)..(100 * PctScale + Overshoot)}

\* _validate_percentage(value, field_name): the value, or ValueError naming the field.
validate_percentage_lower_only(value, field_name) ==
    IF ~ RLe(Zero, value)
    THEN [raised |-> "ValueError",
          msg |-> <<field_name, " percentage must be between 0 and 100">>]
    ELSE [raised |-> "none", value |-> value]

validate_percentage(value, field_name) ==
    IF ~ (RLe(Zero, value) /\ RLe(value, Hundred))
    THEN [raised |-> "ValueError",
          msg |-> <<field_name, " percentage must be between 0 and 100">>]
    ELSE [raised |-> "none", value |-> value]

\* __init__: STEM is validated first, then Humanities; the first failure propagates.
BalanceIndex_init(stem_percent, humanities_percent) ==
    LET s == validate_percentage(stem_percent, "STEM")
        h == validate_percentage(humanities_percent, "Humanities")
    IN  IF s.raised # "none" THEN [raised |-> s.raised, msg |-> s.msg]
        ELSE IF h.raised # "none" THEN [raised |-> h.raised, msg |-> h.msg]
        ELSE [raised |-> "none",
              self |-> [exists |-> TRUE,
                        stem_percent |-> s.value,
                        humanities_percent |-> h.value]]

\* Python's true division of two finite numbers: ZeroDivisionError on a zero divisor.
TrueDiv(a, b) ==
    IF b = Zero THEN [raised |-> "ZeroDivisionError"]
    ELSE [raised |-> "none", value |-> RQuot(a, b)]

\* Faulty variants of calculate(), against which its properties are tested.
calculate_inverted(self) ==
    IF self.stem_percent = Zero /\ self.humanities_percent = Zero
    THEN [raised |-> "none", value |-> Zero]
    ELSE LET max_pct == RMax(self.stem_percent, self.humanities_percent)
             min_pct == RMin(self.stem_percent, self.humanities_percent)
         IN  IF RGt(min_pct, Zero) THEN TrueDiv(max_pct, min_pct)
             ELSE [raised |-> "none", value |-> Zero]

calculate_stem_over_max(self) ==
    IF self.stem_percent = Zero /\ self.humanities_percent = Zero
    THEN [raised |-> "none", value |-> Zero]
    ELSE LET max_pct == RMax(self.stem_percent, self.humanities_percent)
         IN  IF RGt(max_pct, Zero) THEN TrueDiv(self.stem_percent, max_pct)
             ELSE [raised |-> "none", value |-> Zero]

calculate_unguarded(self) ==
    LET max_pct == RMax(self.stem_percent, self.humanities_percent)
        min_pct == RMin(self.stem_percent, self.humanities_percent)
    IN  TrueDiv(min_pct, max_pct)

calculate_zero_is_balanced(self) ==
    IF self.stem_percent = Zero /\ self.humanities_percent = Zero
    THEN [raised |-> "none", value |-> One]
    ELSE LET max_pct == RMax(self.stem_percent, self.humanities_percent)
             min_pct == RMin(self.stem_percent, self.humanities_percent)
         IN  IF RGt(max_pct, Zero) THEN TrueDiv(min_pct, max_pct)
             ELSE [raised |-> "none", value |-> Zero]

\* calculate(): 0.0 for (0, 0), otherwise min / max.
calculate(self) ==
    IF self.stem_percent = Zero /\ self.humanities_percent = Zero
    THEN [raised |-> "none", value |-> Zero]
    ELSE LET max_pct == RMax(self.stem_percent, self.humanities_percent)
             min_pct == RMin(self.stem_percent, self.humanities_percent)
         IN  IF RGt(max_pct, Zero) THEN TrueDiv(min_pct, max_pct)
             ELSE [raised |-> "none", value |-> Zero]

ratio_unguarded(self) ==
    LET d == TrueDiv(self.stem_percent, self.humanities_percent)
    IN  IF d.raised # "none" THEN d
        ELSE [raised |-> "none", value |-> Num(d.value)]

\* ratio(): stem / humanities, float('inf') or float('nan') on a zero divisor.
ratio(self) ==
    IF self.humanities_percent = Zero
    THEN [raised |-> "none",
          value |-> IF RGt(self.stem_percent, Zero) THEN Inf ELSE NaN]
    ELSE LET d == TrueDiv(self.stem_percent, self.humanities_percent)
         IN  IF d.raised # "none" THEN d
             ELSE [raised |-> "none", value |-> Num(d.value)]

\* The if/elif chain of interpretation() over balance_score.
category_of_strict_excellent(balance_score) ==
    IF RGt(balance_score, Frac(8, 10)) THEN
        [category |-> "Excellent Balance",
         interpretation |-> "Near-optimal educational equilibrium",
         recommendation |-> "Maintain current balance while monitoring trends"]
    ELSE IF RGe(balance_score, Frac(6, 10)) THEN
        [category |-> "Good Balance",
         interpretation |-> "Reasonable educational balance with room for improvement",
         recommendation |-> "Minor adjustments to achieve optimal balance"]
    ELSE IF RGe(balance_score, Frac(4, 10)) THEN
        [category |-> "Moderate Imbalance",
         interpretation |-> "Significant educational stratification present",
         recommendation |-> "Systematic policy intervention needed"]
    ELSE IF RGe(balance_score, Frac(2, 10)) THEN
        [category |-> "Severe Imbalance",
         interpretation |-> "Extreme educational stratification",
         recommendation |-> "Urgent comprehensive reform required"]
    ELSE
        [category |-> "Critical Imbalance",
         interpretation |-> "Educational apartheid conditions",
         recommendation |-> "Emergency intervention and complete restructuring needed"]

category_of(balance_score) ==
    IF RGe(balance_score, Frac(8, 10)) THEN
        [category |-> "Excellent Balance",
         interpretation |-> "Near-optimal educational equilibrium",
         recommendation |-> "Maintain current balance while monitoring trends"]
    ELSE IF RGe(balance_score, Frac(6, 10)) THEN
        [category |-> "Good Balance",
         interpretation |-> "Reasonable educational balance with room for improvement",
         recommendation |-> "Minor adjustments to achieve optimal balance"]
    ELSE IF RGe(balance_score, Frac(4, 10)) THEN
        [category |-> "Moderate Imbalance",
         interpretation |-> "Significant educational stratification present",
         recommendation |-> "Systematic policy intervention needed"]
    ELSE IF RGe(balance_score, Frac(2, 10)) THEN
        [category |-> "Severe Imbalance",
         interpretation |-> "Extreme educational stratification",
         recommendation |-> "Urgent comprehensive reform required"]
    ELSE
        [category |-> "Critical Imbalance",
         interpretation |-> "Educational apartheid conditions",
         recommendation |-> "Emergency intervention and complete restructuring needed"]

\* interpretation(): calculate(), ratio(), then the category of the balance score.
interpretation(self) ==
    LET balance_score == calculate(self)
        ratio_score == ratio(self)
    IN  IF balance_score.raised # "none" THEN [raised |-> balance_score.raised]
        ELSE IF ratio_score.raised # "none" THEN [raised |-> ratio_score.raised]
        ELSE LET c == category_of(balance_score.value)
             IN  [raised |-> "none",
                  balance_index |-> balance_score.value,
                  stem_humanities_ratio |-> ratio_score.value,
                  category |-> c.category,
                  interpretation |-> c.interpretation,
                  recommendation |-> c.recommendation]

(* The calls a client of BalanceIndex makes *)

NoCall == [op |-> "none"]
NoData == <<>>

\* Python's None; a file that does not exist; data_files before any file is written.
\* Both stand where a table, a sequence of rows, can stand, and are written as
\* sequences of one marker that is no row.
None == << [kind |-> "None"] >>
Missing == << [kind |-> "missing"] >>
NoFiles == [main |-> Missing, ts |-> Missing]

\* The pipeline's state while only the analyses run: no ManuscriptReproducer call yet.
InitReproducer ==
    /\ data_files = NoFiles
    /\ stats_analyzer = "None"
    /\ stats_results = NoCall
    /\ validation = NoCall
    /\ run_out = NoCall

\* BalanceIndex(stem_percent, humanities_percent): the one constructor call of a run.
Construct ==
    /\ out = NoCall
    /\ \E s \in PercentInputs, h \in PercentInputs :
        LET r == BalanceIndex_init(s, h)
        IN  /\ obj' = IF r.raised = "none" THEN r.self ELSE NoObject
            /\ out' = IF r.raised = "none"
                      THEN [op |-> "__init__", args |-> <<s, h>>, raised |-> "none"]
                      ELSE [op |-> "__init__", args |-> <<s, h>>,
                            raised |-> r.raised, msg |-> r.msg]
            /\ UNCHANGED <<main_data, anova_out, time_series_data, ratio_out, corr_out,
                         trend_out>>
            /\ UNCHANGED reproducerVars

Calculate ==
    /\ obj.exists
    /\ out' = [op |-> "calculate"] @@ calculate(obj)
    /\ UNCHANGED <<obj, main_data, anova_out, time_series_data, ratio_out,
                   corr_out, trend_out>>
    /\ UNCHANGED reproducerVars

Ratio ==
    /\ obj.exists
    /\ out' = [op |-> "ratio"] @@ ratio(obj)
    /\ UNCHANGED <<obj, main_data, anova_out, time_series_data, ratio_out,
                   corr_out, trend_out>>
    /\ UNCHANGED reproducerVars

Interpretation ==
    /\ obj.exists
    /\ out' = [op |-> "interpretation"] @@ interpretation(obj)
    /\ UNCHANGED <<obj, main_data, anova_out, time_series_data, ratio_out,
                   corr_out, trend_out>>
    /\ UNCHANGED reproducerVars

InitBalance ==
    /\ obj = NoObject
    /\ out = NoCall
    /\ main_data = NoData
    /\ anova_out = NoCall
    /\ time_series_data = NoData
    /\ ratio_out = NoCall
    /\ corr_out = NoCall
    /\ trend_out = NoCall
    /\ scipy_checks = TRUE
    /\ InitReproducer

NextBalance == Construct \/ Calculate \/ Ratio \/ Interpretation

SpecBalance == InitBalance /\ [][NextBalance]_vars

----------------------------------------------------------------------------
(* Properties of BalanceIndex, checked under SpecBalance *)

InRange(v) == RLe(Zero, v) /\ RLe(v, Hundred)
Swapped(self) ==
    [exists |-> TRUE,
     stem_percent |-> self.humanities_percent,
     humanities_percent |-> self.stem_percent]

\* C1: for every valid (stem, hum), the Balance Index that calculate() returns
\* lies in the closed interval [0, 1].
C1_IndexInUnitInterval ==
    out.op = "calculate" =>
        /\ out.raised = "none"
        /\ RLe(Zero, out.value)
        /\ RLe(out.value, One)

C1_Witness ==
    /\ out.op = "calculate"
    /\ out.raised = "none"
    /\ RLt(Zero, out.value)
    /\ RLt(out.value, One)

\* C2: the Balance Index is symmetric: calculate() on (stem, hum) returns what
\* calculate() returns on (hum, stem).
C2_Symmetric ==
    out.op = "calculate" => out = [op |-> "calculate"] @@ calculate(Swapped(obj))

C2_Witness ==
    /\ out.op = "calculate"
    /\ RLt(Zero, obj.stem_percent)
    /\ RLt(obj.stem_percent, obj.humanities_percent)

\* C3: calculate() returns exactly 0 for (0, 0) and otherwise min/max over a
\* strictly positive max; it returns 0 when exactly one percentage is 0, and it
\* never divides by zero.
C3_MinOverMax ==
    out.op = "calculate" =>
        LET s == obj.stem_percent
            h == obj.humanities_percent
        IN  /\ out.raised = "none"
            /\ (s = Zero /\ h = Zero) => out.value = Zero
            /\ ~ (s = Zero /\ h = Zero) =>
                   /\ RGt(RMax(s, h), Zero)
                   /\ RMul(out.value, RMax(s, h)) = RMin(s, h)
            /\ ((s = Zero) # (h = Zero)) => out.value = Zero

C3_Witness ==
    /\ out.op = "calculate"
    /\ obj.stem_percent = Hundred
    /\ obj.humanities_percent = Zero
    /\ out.raised = "none"
    /\ out.value = Zero

\* C4: the Balance Index is 1 if and only if stem = hum and both are positive.
C4_OneIffEqualPositive ==
    out.op = "calculate" =>
        /\ out.raised = "none"
        /\ (out.value = One) <=>
               (obj.stem_percent = obj.humanities_percent
                    /\ RGt(obj.stem_percent, Zero))

C4_Witness ==
    /\ out.op = "calculate"
    /\ out.raised = "none"
    /\ out.value = One
    /\ obj.stem_percent = Frac(50, 1)

\* C5: ratio() never raises on a valid object: +infinity when humanities = 0 and
\* stem > 0, NaN when both are 0, the quotient stem/humanities otherwise.
C5_RatioSentinels ==
    out.op = "ratio" =>
        LET s == obj.stem_percent
            h == obj.humanities_percent
        IN  /\ out.raised = "none"
            /\ (h = Zero /\ RGt(s, Zero)) => out.value = Inf
            /\ (h = Zero /\ s = Zero) => out.value = NaN
            /\ h # Zero =>
                   /\ out.value.kind = "num"
                   /\ RMul(out.value.q, h) = s

C5_Witness ==
    /\ out.op = "ratio"
    /\ out.raised = "none"
    /\ out.value = Inf
    /\ obj.stem_percent = Hundred

CategoryOrder ==
    <<"Critical Imbalance", "Severe Imbalance", "Moderate Imbalance",
      "Good Balance", "Excellent Balance">>
CategoryRank(c) == CHOOSE i \in 1..Len(CategoryOrder) : CategoryOrder[i] = c
CategoryBounds == {Frac(2, 10), Frac(4, 10), Frac(6, 10), Frac(8, 10)}

\* C7: interpretation() categorises by a step function with closed lower bounds:
\* [0.8,1] Excellent, [0.6,0.8) Good, [0.4,0.6) Moderate, [0.2,0.4) Severe,
\* [0,0.2) Critical (the category is the one ranked by the number of bounds at
\* or below the index, so exactly 0.8 is Excellent and exactly 0.2 Severe), and
\* an index above (below) the returned one never gets a worse (better) category.
C7_CategoryStepFunction ==
    out.op = "interpretation" =>
        /\ out.raised = "none"
        /\ out.balance_index = calculate(obj).value
        /\ out.category =
               CategoryOrder[1 + Cardinality({b \in CategoryBounds :
                                                 RLe(b, out.balance_index)})]
        /\ \A k \in 0..20 :
               LET q == Frac(k, 20)
                   c == category_of(q).category
               IN  /\ RGe(q, out.balance_index) =>
                          CategoryRank(c) >= CategoryRank(out.category)
                   /\ RLe(q, out.balance_index) =>
                          CategoryRank(c) <= CategoryRank(out.category)

C7_Witness ==
    /\ out.op = "interpretation"
    /\ out.raised = "none"
    /\ out.balance_index = Frac(8, 10)
    /\ out.category = "Excellent Balance"

----------------------------------------------------------------------------
(* statistical_analysis.py: DigitalStratificationAnalysis.anova_analysis *)

RegionNames == {"Asia", "Europe", "Africa"}
BalanceValues == {Frac(k, BiDen) : k \in 0..BiDen}
Rows == [region : RegionNames, balance_index : BalanceValues]
\* The tables a loaded main_data can hold: any rows in any order, none included.
Datasets == UNION {[1..n -> Rows] : n \in 0..MaxRows}

\* A column of a table, as the sequence of its values in row order.
Column(data, name) == [i \in 1..Len(data) |-> data[i][name]]

RECURSIVE RSum(_)
RSum(xs) == IF xs = <<>> THEN Zero ELSE RAdd(Head(xs), RSum(Tail(xs)))

RECURSIVE Unique(_)
\* Series.unique(): the distinct values in order of first appearance.
Unique(xs) ==
    IF xs = <<>> THEN <<>>
    ELSE LET init == Unique(SubSeq(xs, 1, Len(xs) - 1))
             last == xs[Len(xs)]
         IN  IF \E i \in 1..Len(init) : init[i] = last THEN init
             ELSE Append(init, last)

\* self.main_data[self.main_data['region'] == region]['balance_index']
RegionGroup(data, region) ==
    Column(SelectSeq(data, LAMBDA row : row.region = region), "balance_index")

\* np.mean of a non-empty sequence.
Mean(xs) == RQuot(RSum(xs), RInt(Len(xs)))

\* Division of two numpy float64 values: no exception, IEEE results.
FloatDiv(a, b) ==
    IF b # Zero THEN Num(RQuot(a, b))
    ELSE IF a = Zero THEN NaN
    ELSE Inf

SumOfSquares(xs) == RSum([i \in 1..Len(xs) |-> RSq(xs[i])])
SquareOfSums(xs) == RSq(RSum(xs))
Flatten(groups) ==
    LET RECURSIVE cat(_)
        cat(gs) == IF gs = <<>> THEN <<>> ELSE Head(gs) \o cat(Tail(gs))
    IN  cat(groups)

\* scipy.stats.f_oneway(*groups).  checks_inputs tells the library versions
\* apart: the ones that reject fewer than two samples with TypeError, and the
\* earlier ones that compute on (np.concatenate of no arrays raises ValueError;
\* one sample gives 0/0).  With two or more samples every version returns:
\* F = NaN when all groups have length 1 or all values are the same, F = inf
\* (p = 0) when every group is constant and two groups differ, and
\* F = (ssbn/dfbn)/(sswn/dfwn) with p = fdtrc(dfbn, dfwn, F) otherwise.
f_oneway(groups, checks_inputs) ==
    LET num_groups == Len(groups)
        alldata == Flatten(groups)
        bign == Len(alldata)
        sstot == RSub(SumOfSquares(alldata),
                      RQuot(SquareOfSums(alldata), RInt(bign)))
        ssbn == RSub(RSum([g \in 1..num_groups |->
                              RQuot(SquareOfSums(groups[g]),
                                    RInt(Len(groups[g])))]),
                     RQuot(SquareOfSums(alldata), RInt(bign)))
        sswn == RSub(sstot, ssbn)
        dfbn == num_groups - 1
        dfwn == bign - num_groups
        msb == FloatDiv(ssbn, RInt(dfbn))
        msw == FloatDiv(sswn, RInt(dfwn))
    IN  IF num_groups < 2 /\ checks_inputs
        THEN [raised |-> "TypeError"]
        ELSE IF num_groups = 0
        THEN [raised |-> "ValueError"]
        ELSE IF msb.kind # "num" \/ msw.kind # "num"
        THEN [raised |-> "none", f |-> NaN, prob |-> NaN]
        ELSE IF msw.q = Zero
        THEN IF msb.q = Zero
             THEN [raised |-> "none", f |-> NaN, prob |-> NaN]
             ELSE [raised |-> "none", f |-> Inf, prob |-> Num(Zero)]
        ELSE LET f == RQuot(msb.q, msw.q)
             IN  [raised |-> "none", f |-> Num(f),
                  prob |-> [kind |-> "fdtrc", dfn |-> dfbn, dfd |-> dfwn, f |-> f]]

\* regions and region_groups of anova_analysis
region_groups(data) ==
    LET regions == Unique(Column(data, "region"))
    IN  [g \in 1..Len(regions) |-> RegionGroup(data, regions[g])]

\* np.mean(self.main_data['balance_index'])
grand_mean(data) == Mean(Column(data, "balance_index"))

mean_of_group_means(data) ==
    LET groups == region_groups(data)
    IN  Mean([g \in 1..Len(groups) |-> Mean(groups[g])])

\* ss_between with the squared deviations taken from the mean of the group means.
ss_between_from_group_means(data) ==
    LET groups == region_groups(data)
    IN  RSum([g \in 1..Len(groups) |->
                 RMul(RInt(Len(groups[g])),
                      RSq(RSub(Mean(groups[g]), mean_of_group_means(data))))])

\* ss_between without the group sizes as weights.
ss_between_unweighted(data) ==
    LET groups == region_groups(data)
    IN  RSum([g \in 1..Len(groups) |->
                 RSq(RSub(Mean(groups[g]), grand_mean(data)))])

ss_between(data) ==
    LET groups == region_groups(data)
    IN  RSum([g \in 1..Len(groups) |->
                 RMul(RInt(Len(groups[g])),
                      RSq(RSub(Mean(groups[g]), grand_mean(data))))])

ss_total(data) ==
    LET xs == Column(data, "balance_index")
    IN  RSum([i \in 1..Len(xs) |-> RSq(RSub(xs[i], grand_mean(data)))])

\* anova_analysis(): f_oneway over the region groups, then eta squared.
anova_analysis(data, checks_inputs) ==
    LET test == f_oneway(region_groups(data), checks_inputs)
    IN  IF test.raised # "none" THEN [raised |-> test.raised]
        ELSE [raised |-> "none",
              f_stat |-> test.f,
              p_value |-> test.prob,
              eta_squared |-> FloatDiv(ss_between(data), ss_total(data))]

\* anova_analysis() under the scipy that is installed for the whole run.
AnovaAnalysis ==
    /\ anova_out' = [op |-> "anova_analysis"]
                        @@ anova_analysis(main_data, scipy_checks)
    /\ UNCHANGED <<obj, out, main_data, time_series_data, ratio_out, corr_out,
                   trend_out>>
    /\ UNCHANGED reproducerVars

InitStats ==
    /\ obj = NoObject
    /\ out = NoCall
    /\ main_data \in Datasets
    /\ anova_out = NoCall
    /\ time_series_data = NoData
    /\ ratio_out = NoCall
    /\ corr_out = NoCall
    /\ trend_out = NoCall
    /\ scipy_checks \in BOOLEAN
    /\ InitReproducer

NextStats == AnovaAnalysis

SpecStats == InitStats /\ [][NextStats]_vars

----------------------------------------------------------------------------
(* Properties of anova_analysis, checked under SpecStats *)

RECURSIVE SumOver(_, _)
\* The sum of f[i] over the finite set S.
SumOver(S, f) ==
    IF S = {} THEN Zero
    ELSE LET i == CHOOSE j \in S : TRUE
         IN  RAdd(f[i], SumOver(S \ {i}, f))

Observations == 1..Len(main_data)
RegionsPresent == {main_data[i].region : i \in Observations}
Members(r) == {i \in Observations : main_data[i].region = r}
BalanceAt == [i \in Observations |-> main_data[i].balance_index]
AllIdentical == \A i, j \in Observations : BalanceAt[i] = BalanceAt[j]
AnovaReturned == anova_out.op = "anova_analysis" /\ anova_out.raised = "none"

\* The mean of the Balance Index over the observations in I (I not empty).
MeanOver(I) == RQuot(SumOver(I, BalanceAt), RInt(Cardinality(I)))

\* Sum of squared deviations of every observation from the grand mean.
TotalSS ==
    SumOver(Observations,
            [i \in Observations |->
                RSq(RSub(BalanceAt[i], MeanOver(Observations)))])

\* Sum over the groups of size times squared deviation of the group mean from
\* the grand mean over all observations.
BetweenSS ==
    SumOver(RegionsPresent,
            [r \in RegionsPresent |->
                RMul(RInt(Cardinality(Members(r))),
                     RSq(RSub(MeanOver(Members(r)), MeanOver(Observations))))])

\* C8: the effect size anova_analysis returns is ss_between / ss_total, with
\* ss_total the squared deviations of all observations from the grand mean over
\* all observations and ss_between the size-weighted squared deviations of the
\* group means from that same grand mean (the float quotient: NaN for 0/0).
C8_EtaSquaredFromGrandMean ==
    AnovaReturned =>
        IF TotalSS # Zero
        THEN anova_out.eta_squared = Num(RQuot(BetweenSS, TotalSS))
        ELSE anova_out.eta_squared = NaN

\* Groups of unequal size with an effect size strictly between 0 and 1.
C8_Witness ==
    /\ AnovaReturned
    /\ \E r, s \in RegionsPresent :
           Cardinality(Members(r)) # Cardinality(Members(s))
    /\ anova_out.eta_squared.kind = "num"
    /\ RLt(Zero, anova_out.eta_squared.q)
    /\ RLt(anova_out.eta_squared.q, One)

\* C9: when all Balance Index values are identical and there are at least two
\* regions, anova_analysis does not raise and returns eta_squared = 0.0 with
\* F = NaN.
C9_DegenerateEtaIsZero ==
    (anova_out.op = "anova_analysis"
         /\ Cardinality(RegionsPresent) >= 2 /\ AllIdentical) =>
        /\ anova_out.raised = "none"
        /\ anova_out.eta_squared = Num(Zero)
        /\ anova_out.f_stat = NaN

\* C10: with fewer than 2 distinct regions anova_analysis fails with
\* InsufficientGroupsError; with 2 or more it returns, single-observation
\* regions included.
C10_InsufficientGroupsRaised ==
    anova_out.op = "anova_analysis" =>
        IF Cardinality(RegionsPresent) < 2
        THEN anova_out.raised = "InsufficientGroupsError"
        ELSE anova_out.raised = "none"

ConstantWithinRegions ==
    \A r \in RegionsPresent : \A i, j \in Members(r) : BalanceAt[i] = BalanceAt[j]

C12_EtaSquaredInUnitInterval ==
    AnovaReturned =>
        /\ anova_out.eta_squared.kind = "num"
        /\ RLe(Zero, anova_out.eta_squared.q)
        /\ RLe(anova_out.eta_squared.q, One)

----------------------------------------------------------------------------
(* statistical_analysis.py: DigitalStratificationAnalysis.digital_stratification_ratio *)

\* The columns of main_data that digital_stratification_ratio reads.
StemValues == {RInt(40), RInt(42), RInt(44)}
HumanitiesValues == {RInt(5), RInt(7), RInt(10)}
SpreadRows == [stem_percent : StemValues, humanities_percent : HumanitiesValues]
SpreadDatasets == UNION {[1..n -> SpreadRows] : n \in 0..MaxRows}

RECURSIVE SeqMax(_)
SeqMax(xs) ==
    IF Len(xs) = 1 THEN xs[1] ELSE RMax(Head(xs), SeqMax(Tail(xs)))
RECURSIVE SeqMin(_)
SeqMin(xs) ==
    IF Len(xs) = 1 THEN xs[1] ELSE RMin(Head(xs), SeqMin(Tail(xs)))

\* Series.max() and Series.min(): NaN on an empty column.
ColumnMax(xs) == IF xs = <<>> THEN NaN ELSE Num(SeqMax(xs))
ColumnMin(xs) == IF xs = <<>> THEN NaN ELSE Num(SeqMin(xs))

\* Subtraction and division of numpy floats: NaN propagates, no exception.
FloatSub(a, b) ==
    IF a.kind = "num" /\ b.kind = "num" THEN Num(RSub(a.q, b.q)) ELSE NaN
FloatQuot(a, b) ==
    IF a.kind = "num" /\ b.kind = "num" THEN FloatDiv(a.q, b.q) ELSE NaN

\* Faulty variants of digital_stratification_ratio().
digital_stratification_ratio_inverted(data) ==
    LET stem == Column(data, "stem_percent")
        hum == Column(data, "humanities_percent")
        stem_gap == FloatSub(ColumnMax(stem), ColumnMin(stem))
        hum_gap == FloatSub(ColumnMax(hum), ColumnMin(hum))
    IN  FloatQuot(hum_gap, stem_gap)

digital_stratification_ratio_endpoints(data) ==
    LET stem == Column(data, "stem_percent")
        hum == Column(data, "humanities_percent")
        n == Len(data)
        stem_gap == IF n = 0 THEN NaN ELSE Num(RSub(stem[n], stem[1]))
        hum_gap == IF n = 0 THEN NaN ELSE Num(RSub(hum[n], hum[1]))
    IN  FloatQuot(stem_gap, hum_gap)

\* digital_stratification_ratio(): (stem max - stem min) / (hum max - hum min).
digital_stratification_ratio(data) ==
    LET stem == Column(data, "stem_percent")
        hum == Column(data, "humanities_percent")
        stem_max == ColumnMax(stem)
        stem_min == ColumnMin(stem)
        stem_gap == FloatSub(stem_max, stem_min)
        hum_max == ColumnMax(hum)
        hum_min == ColumnMin(hum)
        hum_gap == FloatSub(hum_max, hum_min)
    IN  FloatQuot(stem_gap, hum_gap)

\* A faulty variant of the call, which takes the first row off main_data.
DigitalStratificationRatio_consuming_rows ==
    /\ main_data # <<>>
    /\ ratio_out' = [op |-> "digital_stratification_ratio", raised |-> "none",
                     value |-> digital_stratification_ratio(main_data)]
    /\ main_data' = Tail(main_data)
    /\ UNCHANGED <<obj, out, anova_out, time_series_data, corr_out, trend_out>>
    /\ UNCHANGED reproducerVars

DigitalStratificationRatio ==
    /\ ratio_out' = [op |-> "digital_stratification_ratio", raised |-> "none",
                     value |-> digital_stratification_ratio(main_data)]
    /\ UNCHANGED <<obj, out, main_data, anova_out, time_series_data, corr_out,
                   trend_out>>
    /\ UNCHANGED reproducerVars

InitSpread ==
    /\ obj = NoObject
    /\ out = NoCall
    /\ main_data \in SpreadDatasets
    /\ anova_out = NoCall
    /\ time_series_data = NoData
    /\ ratio_out = NoCall
    /\ corr_out = NoCall
    /\ trend_out = NoCall
    /\ scipy_checks = TRUE
    /\ InitReproducer

NextSpread == DigitalStratificationRatio

SpecSpread == InitSpread /\ [][NextSpread]_vars

----------------------------------------------------------------------------
(* Properties of digital_stratification_ratio, checked under SpecSpread *)

StemSet == {main_data[i].stem_percent : i \in 1..Len(main_data)}
HumSet == {main_data[i].humanities_percent : i \in 1..Len(main_data)}
Greatest(S) == CHOOSE x \in S : \A y \in S : RLe(y, x)
Least(S) == CHOOSE x \in S : \A y \in S : RLe(x, y)
Spread(S) == RSub(Greatest(S), Least(S))
RatioReturned ==
    ratio_out.op = "digital_stratification_ratio" /\ ratio_out.raised = "none"

\* C13: digital_stratification_ratio returns (max stem - min stem) divided by
\* (max humanities - min humanities) over all records (the float quotient when
\* the divisor is 0); STEM range [40,44] and humanities range [5,10] give 0.8.
C13_RatioOfSpreads ==
    (ratio_out.op = "digital_stratification_ratio" /\ main_data # <<>>) =>
        /\ ratio_out.raised = "none"
        /\ ratio_out.value =
               IF Spread(HumSet) # Zero
               THEN Num(RQuot(Spread(StemSet), Spread(HumSet)))
               ELSE IF Spread(StemSet) = Zero THEN NaN ELSE Inf
        /\ (Least(StemSet) = RInt(40) /\ Greatest(StemSet) = RInt(44)
                /\ Least(HumSet) = RInt(5) /\ Greatest(HumSet) = RInt(10)) =>
               ratio_out.value = Num(Frac(8, 10))

C13_Witness ==
    /\ RatioReturned
    /\ Len(main_data) = 3
    /\ Least(StemSet) = RInt(40) /\ Greatest(StemSet) = RInt(44)
    /\ Least(HumSet) = RInt(5) /\ Greatest(HumSet) = RInt(10)
    /\ ratio_out.value = Num(Frac(8, 10))

\* C14: on a table with records, when all humanities percentages are identical
\* the ratio fails with DegenerateSpreadError, and infinity or NaN is never
\* returned as a result.
C14_DegenerateSpreadRaised ==
    (ratio_out.op = "digital_stratification_ratio" /\ main_data # <<>>) =>
        /\ Cardinality(HumSet) = 1 => ratio_out.raised = "DegenerateSpreadError"
        /\ ratio_out.raised = "none" => ratio_out.value.kind = "num"

Permuted(data, p) == [i \in 1..Len(data) |-> data[p[i]]]

\* C15: the ratio is order-independent: every permutation of the records of
\* main_data yields the ratio that was returned.
C15_OrderIndependent ==
    ratio_out.op = "digital_stratification_ratio" =>
        \A p \in Permutations(1..Len(main_data)) :
            digital_stratification_ratio(Permuted(main_data, p)) = ratio_out.value

\* Records that differ in both columns, so that reordering changes the table.
C15_Witness ==
    /\ RatioReturned
    /\ Len(main_data) >= 3
    /\ Cardinality(StemSet) = Len(main_data)
    /\ Cardinality(HumSet) = Len(main_data)
    /\ main_data[1].stem_percent = Greatest(StemSet)
    /\ ratio_out.value.kind = "num"

----------------------------------------------------------------------------
(* statistical_analysis.py: DigitalStratificationAnalysis.correlation_analysis *)

\* A correlation coefficient is kept exactly as its sign and its square:
\* [kind |-> "r", sign |-> -1 | 0 | 1, sq |-> r * r].
RVal(sign, sq) == [kind |-> "r", sign |-> sign, sq |-> sq]
Sign(q) == IF q[1] > 0 THEN 1 ELSE IF q[1] < 0 THEN -1 ELSE 0

\* The (var, label) pairs and manuscript_r of correlation_analysis, in order.
variables ==
    << [var |-> "democratic_participation_index",
        label |-> "Democratic Participation Index", manuscript_r |-> Frac(689, 1000)],
       [var |-> "innovation_capacity_index",
        label |-> "Innovation Capacity Index", manuscript_r |-> Frac(847, 1000)],
       [var |-> "civic_engagement_score",
        label |-> "Civic Engagement Score", manuscript_r |-> Frac(723, 1000)],
       [var |-> "social_trust_level",
        label |-> "Social Trust Level", manuscript_r |-> Frac(534, 1000)],
       [var |-> "patent_citations_per_capita",
        label |-> "Patent Citations (per capita)", manuscript_r |-> Frac(656, 1000)],
       [var |-> "democratic_erosion_risk",
        label |-> "Democratic Erosion Risk", manuscript_r |-> Frac(-678, 1000)] >>

\* The columns of main_data that correlation_analysis reads.  The tables drawn
\* give the five indicators other than democratic_erosion_risk one common value
\* per row.
IndicatorValues == {RInt(0), RInt(1)}
CorrBalanceValues == {Frac(1, 4), Frac(3, 4)}
CorrRow(b, v, e) ==
    [balance_index |-> b,
     democratic_participation_index |-> v,
     innovation_capacity_index |-> v,
     civic_engagement_score |-> v,
     social_trust_level |-> v,
     patent_citations_per_capita |-> v,
     democratic_erosion_risk |-> e]
CorrRows ==
    {CorrRow(b, v, e) :
        b \in CorrBalanceValues, v \in IndicatorValues, e \in IndicatorValues}
CorrDatasets == UNION {[1..n -> CorrRows] : n \in 0..MaxRows}

IsConstant(xs) == \A i \in 1..Len(xs) : xs[i] = xs[1]

\* scipy.stats.pearsonr(x, y) on columns of equal length: ValueError below two
\* observations, (nan, nan) on a constant column, (+-1, 1.0) on two
\* observations, otherwise r = sum(xm*ym) / sqrt(sum(xm^2) * sum(ym^2)) and the
\* two-sided p-value of r for n observations.
pearsonr(x, y) ==
    LET n == Len(x)
        xm == [i \in 1..n |-> RSub(x[i], Mean(x))]
        ym == [i \in 1..n |-> RSub(y[i], Mean(y))]
        sxy == RSum([i \in 1..n |-> RMul(xm[i], ym[i])])
        sxx == RSum([i \in 1..n |-> RSq(xm[i])])
        syy == RSum([i \in 1..n |-> RSq(ym[i])])
    IN  IF n < 2 THEN [raised |-> "ValueError"]
        ELSE IF IsConstant(x) \/ IsConstant(y)
        THEN [raised |-> "none", r |-> NaN, p |-> NaN]
        ELSE IF n = 2
        THEN [raised |-> "none",
              r |-> RVal(Sign(RSub(x[2], x[1])) * Sign(RSub(y[2], y[1])), One),
              p |-> Num(One)]
        ELSE LET r == RVal(Sign(sxy), RQuot(RSq(sxy), RMul(sxx, syy)))
             IN  [raised |-> "none", r |-> r,
                  p |-> [kind |-> "pvalue", n |-> n, r |-> r]]

\* -abs(r)
NegAbs(r) ==
    IF r.kind = "r" THEN RVal(IF r.sign = 0 THEN 0 ELSE -1, r.sq) ELSE r

\* The number of thousandths nearest to the square root of sq (sq in [0, 1]).
Thousandths(sq) ==
    LET AtLeast(m) == (2 * m - 1) * (2 * m - 1) * sq[2] <= 4000000 * sq[1]
        RECURSIVE search(_, _)
        \* the greatest m in lo..hi with AtLeast(m), given AtLeast(lo)
        search(lo, hi) ==
            IF lo = hi THEN lo
            ELSE LET mid == (lo + hi + 1) \div 2
                 IN  IF AtLeast(mid) THEN search(mid, hi) ELSE search(lo, mid - 1)
    IN  search(0, 1000)

\* f"{r:<8.3f}": r to three decimals, as a signed number of thousandths.
Format3f(r) ==
    IF r.kind = "r" THEN [text |-> "f", thousandths |-> r.sign * Thousandths(r.sq)]
    ELSE [text |-> "nan"]

\* The r of one output line of the loop.
displayed_r(var, r) ==
    IF var = "democratic_erosion_risk" THEN NegAbs(r) ELSE r

\* correlations[var] = {'r': r, 'p': p}
stored_r(var, r) == r

\* correlation_analysis(): pearsonr of balance_index with each variable in
\* order; the first exception ends the call.
correlation_analysis(data) ==
    LET x == Column(data, "balance_index")
        res == [i \in 1..Len(variables) |->
                   pearsonr(x, Column(data, variables[i].var))]
    IN  IF \E i \in 1..Len(variables) : res[i].raised # "none"
        THEN [raised |->
                 res[CHOOSE i \in 1..Len(variables) :
                        /\ res[i].raised # "none"
                        /\ \A j \in 1..(i - 1) : res[j].raised = "none"].raised]
        ELSE [raised |-> "none",
              correlations |->
                  [i \in 1..Len(variables) |->
                      [var |-> variables[i].var,
                       r |-> stored_r(variables[i].var, res[i].r),
                       p |-> res[i].p]],
              printed |->
                  [i \in 1..Len(variables) |->
                      [label |-> variables[i].label,
                       r |-> Format3f(displayed_r(variables[i].var, res[i].r)),
                       p |-> res[i].p,
                       manuscript_r |-> variables[i].manuscript_r]]]

CorrelationAnalysis ==
    /\ corr_out' = [op |-> "correlation_analysis"] @@ correlation_analysis(main_data)
    /\ UNCHANGED <<obj, out, main_data, anova_out, time_series_data, ratio_out,
                   trend_out>>
    /\ UNCHANGED reproducerVars

InitCorr ==
    /\ obj = NoObject
    /\ out = NoCall
    /\ main_data \in CorrDatasets
    /\ anova_out = NoCall
    /\ time_series_data = NoData
    /\ ratio_out = NoCall
    /\ corr_out = NoCall
    /\ trend_out = NoCall
    /\ scipy_checks = TRUE
    /\ InitReproducer

NextCorr == CorrelationAnalysis

SpecCorr == InitCorr /\ [][NextCorr]_vars

----------------------------------------------------------------------------
(* Properties of correlation_analysis, checked under SpecCorr *)

CorrReturned == corr_out.op = "correlation_analysis" /\ corr_out.raised = "none"

\* The Pearson r of balance_index with the i-th variable, from the data.
TrueR(i) ==
    pearsonr(Column(main_data, "balance_index"),
             Column(main_data, variables[i].var)).r

\* C16: for every variable, democratic_erosion_risk included, the r in the
\* returned mapping and the r displayed are the true signed Pearson r of the
\* data; the sign is never forced.
C16_TrueSignedRReported ==
    CorrReturned =>
        \A i \in 1..Len(variables) :
            /\ corr_out.correlations[i].var = variables[i].var
            /\ corr_out.correlations[i].r = TrueR(i)
            /\ corr_out.printed[i].r = Format3f(TrueR(i))

\* C17: on a table of fewer than 3 records (0, 1 or 2) correlation_analysis
\* fails, with the error that signals insufficient data, and returns no
\* results.  (Stated for whatever exception class signals it.)
C17_InsufficientDataRaised ==
    (corr_out.op = "correlation_analysis" /\ Len(main_data) < 3) =>
        corr_out.raised # "none"

----------------------------------------------------------------------------
(* statistical_analysis.py: DigitalStratificationAnalysis.time_series_analysis *)

\* The columns of time_series_data that the trend fits read.  The years leave
\* a gap; each record carries one of two (stem, humanities) pairs.
TsRegions == {"Asia", "Europe"}
TsYears == {2015, 2016, 2018}
TsValues == {<<RInt(40), RInt(8)>>, <<RInt(41), RInt(7)>>}
TsRows ==
    {[region |-> r, year |-> y, stem_percent |-> v[1], humanities_percent |-> v[2]] :
        r \in TsRegions, y \in TsYears, v \in TsValues}
TsDatasets == UNION {[1..n -> TsRows] : n \in 0..MaxTsRows}

\* self.time_series_data[self.time_series_data['region'] == region]
RegionRows(data, region) == SelectSeq(data, LAMBDA row : row.region = region)

RECURSIVE Ascending(_)
\* The elements of a finite set of integers in ascending order.
Ascending(S) ==
    IF S = {} THEN <<>>
    ELSE LET least == CHOOSE x \in S : \A y \in S : x <= y
         IN  <<least>> \o Ascending(S \ {least})

\* rows.groupby('year').agg({...: 'mean'}): one row per year, years ascending.
YearlyMeans(rows) ==
    LET years == Ascending({rows[i].year : i \in 1..Len(rows)})
        OfYear(y) == SelectSeq(rows, LAMBDA row : row.year = y)
    IN  [k \in 1..Len(years) |->
            [year |-> years[k],
             stem_percent |-> Mean(Column(OfYear(years[k]), "stem_percent")),
             humanities_percent |->
                 Mean(Column(OfYear(years[k]), "humanities_percent"))]]

\* LinearRegression().fit(X, y).coef_[0] for a single feature: ValueError on no
\* samples or on X and y of different lengths; otherwise the least-squares
\* slope, which is 0 when X does not vary (a single sample).
LinearRegressionSlope(X, y) ==
    LET n == Len(X)
        x == [i \in 1..n |-> RInt(X[i])]
        sxy == RSum([i \in 1..n |-> RMul(RSub(x[i], Mean(x)), RSub(y[i], Mean(y)))])
        sxx == RSum([i \in 1..n |-> RSq(RSub(x[i], Mean(x)))])
    IN  IF n = 0 \/ Len(y) # n THEN [raised |-> "ValueError"]
        ELSE IF sxx = Zero THEN [raised |-> "none", coef |-> Num(Zero)]
        ELSE [raised |-> "none", coef |-> Num(RQuot(sxy, sxx))]

\* time_series_analysis(): the Asia STEM and humanities slopes and the Europe
\* STEM slope, every fit taking years from asia_yearly.index.
time_series_analysis(data) ==
    LET asia_yearly == YearlyMeans(RegionRows(data, "Asia"))
        europe_yearly == YearlyMeans(RegionRows(data, "Europe"))
        years == Column(asia_yearly, "year")
        asia_stem_model ==
            LinearRegressionSlope(years, Column(asia_yearly, "stem_percent"))
        asia_hum_model ==
            LinearRegressionSlope(years, Column(asia_yearly, "humanities_percent"))
        europe_stem_model ==
            LinearRegressionSlope(years, Column(europe_yearly, "stem_percent"))
    IN  IF asia_stem_model.raised # "none" THEN [raised |-> asia_stem_model.raised]
        ELSE IF asia_hum_model.raised # "none" THEN [raised |-> asia_hum_model.raised]
        ELSE IF europe_stem_model.raised # "none"
        THEN [raised |-> europe_stem_model.raised]
        ELSE [raised |-> "none",
              asia_stem_slope |-> asia_stem_model.coef,
              asia_hum_slope |-> asia_hum_model.coef,
              europe_stem_slope |-> europe_stem_model.coef]

TimeSeriesAnalysis ==
    /\ trend_out' = [op |-> "time_series_analysis"]
                        @@ time_series_analysis(time_series_data)
    /\ UNCHANGED <<obj, out, main_data, anova_out, time_series_data, ratio_out,
                   corr_out>>
    /\ UNCHANGED reproducerVars

InitTrend ==
    /\ obj = NoObject
    /\ out = NoCall
    /\ main_data = NoData
    /\ anova_out = NoCall
    /\ time_series_data \in TsDatasets
    /\ ratio_out = NoCall
    /\ corr_out = NoCall
    /\ trend_out = NoCall
    /\ scipy_checks = TRUE
    /\ InitReproducer

NextTrend == TimeSeriesAnalysis

SpecTrend == InitTrend /\ [][NextTrend]_vars

----------------------------------------------------------------------------
(* Properties of time_series_analysis, checked under SpecTrend *)

TrendCalled == trend_out.op = "time_series_analysis"
TrendReturned == TrendCalled /\ trend_out.raised = "none"

\* The per-year means of a region, and its number of distinct years.
Yearly(region) == YearlyMeans(RegionRows(time_series_data, region))
DistinctYears(region) == Len(Yearly(region))

\* The slope between the first two yearly points of a series.
FirstSlope(ys, metric) ==
    RQuot(RSub(ys[2][metric], ys[1][metric]), RInt(ys[2].year - ys[1].year))

\* The yearly means of the metric are exactly a + b * year, over >= 2 years.
ExactlyLinear(ys, metric) ==
    /\ Len(ys) >= 2
    /\ \A k \in 1..Len(ys) :
           RSub(ys[k][metric], ys[1][metric]) =
               RMul(FirstSlope(ys, metric), RInt(ys[k].year - ys[1].year))

\* C18: when slopes are returned, a region whose per-year mean of a metric is
\* exactly linear in the year (metric = a + b * year over at least 2 distinct
\* years) has fitted slope b.
C18_LinearSeriesSlope ==
    TrendReturned =>
        /\ ExactlyLinear(Yearly("Asia"), "stem_percent") =>
               trend_out.asia_stem_slope =
                   Num(FirstSlope(Yearly("Asia"), "stem_percent"))
        /\ ExactlyLinear(Yearly("Asia"), "humanities_percent") =>
               trend_out.asia_hum_slope =
                   Num(FirstSlope(Yearly("Asia"), "humanities_percent"))
        /\ ExactlyLinear(Yearly("Europe"), "stem_percent") =>
               trend_out.europe_stem_slope =
                   Num(FirstSlope(Yearly("Europe"), "stem_percent"))

\* C19: every region's slope is fitted against that region's own observed
\* years: with at least 2 distinct years for Europe, the Europe STEM slope is
\* the least-squares slope over Europe's years, whatever Asia's records are.
C19_OwnYearsFit ==
    (TrendCalled /\ DistinctYears("Asia") >= 2 /\ DistinctYears("Europe") >= 2) =>
        /\ trend_out.raised = "none"
        /\ trend_out.europe_stem_slope =
               LinearRegressionSlope(Column(Yearly("Europe"), "year"),
                                     Column(Yearly("Europe"), "stem_percent")).coef

\* C20: the trend fit of a region with fewer than 2 distinct years (0 or 1)
\* fails, with the error that signals insufficient data, and returns no slope.
\* (Stated for whatever exception class signals it.)
C20_TooFewYearsRaised ==
    (TrendCalled /\ \E region \in TsRegions : DistinctYears(region) < 2) =>
        trend_out.raised # "none"

----------------------------------------------------------------------------
(* The data files and DigitalStratificationAnalysis.__init__ / load_data *)

\* The records of balance_index_47_countries.csv.  A record carries its region,
\* its two percentages, the balance_index column as the file states it, and the
\* indicator columns (erosion risk runs against the other five).  The file is
\* written outside the program: its balance_index column can differ from what
\* the two percentages give, as in the second Europe profile.
AsiaProfiles ==
    { [stem_percent |-> RInt(44), humanities_percent |-> Frac(11, 2),
       balance_index |-> Frac(1, 8)],
      [stem_percent |-> RInt(46), humanities_percent |-> Frac(23, 4),
       balance_index |-> Frac(1, 8)] }
EuropeProfiles ==
    { [stem_percent |-> RInt(34), humanities_percent |-> RInt(17),
       balance_index |-> Frac(1, 2)],
      [stem_percent |-> RInt(34), humanities_percent |-> RInt(17),
       balance_index |-> Frac(1, 8)] }
Record(region, profile, v) ==
    [region |-> region,
     stem_percent |-> profile.stem_percent,
     humanities_percent |-> profile.humanities_percent]
        @@ CorrRow(profile.balance_index, v, RSub(One, v))
\* Asia's records score low on the indicators, Europe's high or low.
Records ==
    {Record("Asia", p, RInt(0)) : p \in AsiaProfiles}
        \cup {Record("Europe", p, RInt(1)) : p \in EuropeProfiles}
        \cup {Record("Europe", p, RInt(0)) :
                 p \in {q \in EuropeProfiles : q.balance_index = Frac(1, 2)}}
\* What balance_index_47_countries.csv can hold: any records in any order.
MainTables == UNION {[1..n -> Records] : n \in 0..MaxRecords}
\* The tables an analyzer session runs on: Asia's first profile scoring low and
\* Europe's two scoring high.
SessionRecords ==
    {r \in Records :
        /\ r.stem_percent # RInt(46)
        /\ r.region = "Europe" => r.democratic_participation_index = One}
SessionTables == UNION {[1..n -> SessionRecords] : n \in 0..MaxRecords}

\* What time_series_data.csv can hold: one record per region and year over the
\* first years of the series, Asia's STEM share rising and Europe's level.
TsRecord(region, year) ==
    [region |-> region, year |-> year,
     stem_percent |-> IF region = "Asia" THEN RInt(40 + (year - 2015)) ELSE RInt(34),
     humanities_percent |-> IF region = "Asia" THEN RInt(8) ELSE RInt(16)]
TsTable(last_year) ==
    [k \in 1..(2 * (last_year - 2014)) |->
        TsRecord(IF k % 2 = 1 THEN "Asia" ELSE "Europe", 2015 + ((k - 1) \div 2))]
TsTables == {TsTable(2015), TsTable(2016)}

\* pd.read_csv(path): the table of the file, or FileNotFoundError.
read_csv(file) ==
    IF file = Missing THEN [raised |-> "FileNotFoundError"]
    ELSE [raised |-> "none", df |-> file]

\* __init__ and load_data(): both fields start as None; the first read that
\* fails ends the loading, and the FileNotFoundError is printed, not raised.
load_data(files) ==
    LET main == read_csv(files.main)
        ts == read_csv(files.ts)
    IN  IF main.raised # "none"
        THEN [main_data |-> None, time_series_data |-> None,
              printed |-> <<"Error loading data">>]
        ELSE IF ts.raised # "none"
        THEN [main_data |-> main.df, time_series_data |-> None,
              printed |-> <<"Main dataset loaded", "Error loading data">>]
        ELSE [main_data |-> main.df, time_series_data |-> ts.df,
              printed |-> <<"Main dataset loaded", "Time series loaded">>]

\* descriptive_statistics(): its table is printed, not kept.  On a main_data
\* that is still None, None.groupby raises AttributeError.
descriptive_statistics(data) ==
    IF data = None THEN [raised |-> "AttributeError"] ELSE [raised |-> "none"]

----------------------------------------------------------------------------
(* statistical_analysis.py: generate_summary_report;                       *)
(* reproduce_results.py: ManuscriptReproducer.reproduce_statistical_results *)

\* The methods of the analyzer as generate_summary_report and the reproducer
\* call them on self: the tables are read from self, and a table that is
\* still None raises at the first subscript.
call_correlation_analysis(self) ==
    IF self.main_data = None THEN [raised |-> "TypeError"]
    ELSE correlation_analysis(self.main_data)
call_anova_analysis(self, checks_inputs) ==
    IF self.main_data = None THEN [raised |-> "TypeError"]
    ELSE anova_analysis(self.main_data, checks_inputs)
call_time_series_analysis(self) ==
    IF self.time_series_data = None THEN [raised |-> "TypeError"]
    ELSE time_series_analysis(self.time_series_data)
call_digital_stratification_ratio(self) ==
    IF self.main_data = None THEN [raised |-> "TypeError"]
    ELSE [raised |-> "none", value |-> digital_stratification_ratio(self.main_data)]

\* F applied to the value of e, with e computed once.
Bind(e, F(_)) == CHOOSE y \in {F(x) : x \in {e}} : TRUE

\* One method of the analyzer, called by name.
CallMethod(self, name, checks_inputs) ==
    CASE name = "descriptive_statistics" -> descriptive_statistics(self.main_data)
      [] name = "correlation_analysis" -> call_correlation_analysis(self)
      [] name = "anova_analysis" -> call_anova_analysis(self, checks_inputs)
      [] name = "time_series_analysis" -> call_time_series_analysis(self)
      [] name = "digital_stratification_ratio" ->
             call_digital_stratification_ratio(self)

RECURSIVE RunCalls(_, _, _)
\* Statements that call the named methods one after the other: what each call
\* gave, up to and including the first that raised.
RunCalls(self, names, checks_inputs) ==
    IF names = <<>> THEN <<>>
    ELSE Bind(CallMethod(self, Head(names), checks_inputs),
              LAMBDA ret :
                  IF ret.raised # "none" THEN <<ret>>
                  ELSE <<ret>> \o RunCalls(self, Tail(names), checks_inputs))

\* What a sequence of calls raised, given what each call made gave.
RaisedBy(rets) == IF rets = <<>> THEN "none" ELSE rets[Len(rets)].raised

SummaryCalls ==
    <<"descriptive_statistics", "correlation_analysis", "anova_analysis",
      "time_series_analysis", "digital_stratification_ratio">>
KeptCalls ==
    <<"correlation_analysis", "anova_analysis", "digital_stratification_ratio">>

\* generate_summary_report(): the five analyses in order, then the summary
\* lines; the results stay local, only the printed lines leave the method.
generate_summary_report(self, checks_inputs) ==
    Bind(RunCalls(self, SummaryCalls, checks_inputs),
         LAMBDA rets :
             [raised |-> RaisedBy(rets),
              calls |-> SubSeq(SummaryCalls, 1, Len(rets)),
              rets |-> rets,
              printed |-> IF RaisedBy(rets) = "none"
                          THEN <<"All key statistics successfully reproduced">>
                          ELSE <<>>])

\* correlations[var] of a dict that correlation_analysis returned
CorrelationOf(correlations, var) ==
    correlations[CHOOSE i \in 1..Len(correlations) : correlations[i].var = var]

\* reproduce_statistical_results(): a new analyzer, its summary report, the
\* three analyses again for the values to keep, statistical_results.txt, and
\* the dict of the kept values.  An exception of any call leaves the method.
reproduce_statistical_results(files, checks_inputs) ==
    Bind(load_data(files), LAMBDA self :
    Bind(generate_summary_report(self, checks_inputs), LAMBDA report :
        IF report.raised # "none"
        THEN [raised |-> report.raised, self |-> self, calls |-> report.calls,
              rets |-> report.rets, written |-> report.printed]
        ELSE
    Bind(RunCalls(self, KeptCalls, checks_inputs), LAMBDA kept :
        IF RaisedBy(kept) # "none"
        THEN [raised |-> RaisedBy(kept), self |-> self,
              calls |-> report.calls \o SubSeq(KeptCalls, 1, Len(kept)),
              rets |-> report.rets \o kept,
              written |-> report.printed]
        ELSE [raised |-> "none", self |-> self,
              calls |-> report.calls \o KeptCalls,
              rets |-> report.rets \o kept,
              written |-> report.printed \o
                  <<"VALIDATION STATUS: ALL RESULTS SUCCESSFULLY REPRODUCED">>,
              correlations |-> kept[1].correlations,
              anova |-> <<kept[2].f_stat, kept[2].p_value, kept[2].eta_squared>>,
              ds_ratio |-> kept[3].value])))

----------------------------------------------------------------------------
(* reproduce_results.py: ManuscriptReproducer.validate_manuscript_claims *)

\* Series.mean(): NaN on an empty column.
SeriesMean(xs) == IF xs = <<>> THEN NaN ELSE Num(Mean(xs))

\* x > bound and x < bound for a float x and a bound >= 0: false on NaN.  A
\* correlation coefficient is compared through its sign and square.
FloatGt(x, bound) ==
    IF x.kind = "num" THEN RGt(x.q, bound)
    ELSE IF x.kind = "inf" THEN TRUE
    ELSE IF x.kind = "r" THEN x.sign = 1 /\ RGt(x.sq, RSq(bound))
    ELSE FALSE
FloatLt(x, bound) == x.kind = "num" /\ RLt(x.q, bound)
\* lo <= x <= hi
FloatBetween(lo, x, hi) == x.kind = "num" /\ RLe(lo, x.q) /\ RLe(x.q, hi)

\* Faulty variants of the validator's parts.
all_valid_of_any(validation_results) ==
    \E i \in 1..Len(validation_results) : validation_results[i].valid

\* all_valid of the printing loop: true unless some result is not valid.
all_valid_of(validation_results) ==
    \A i \in 1..Len(validation_results) : validation_results[i].valid

\* validate_manuscript_claims(stats_results): reads the main file again, takes
\* the Asia and Europe means from it and the correlations and eta squared from
\* stats_results.  validation_results is a dict: its items in insertion order.
validate_manuscript_claims(files, results) ==
    LET csv == read_csv(files.main)
        asia_data == RegionRows(csv.df, "Asia")
        asia_stem_mean == SeriesMean(Column(asia_data, "stem_percent"))
        asia_balance_mean == SeriesMean(Column(asia_data, "balance_index"))
        claim_1_valid ==
            /\ FloatBetween(RInt(43), asia_stem_mean, Frac(445, 10))
            /\ FloatLt(asia_balance_mean, Frac(2, 10))
        europe_data == RegionRows(csv.df, "Europe")
        europe_balance_mean == SeriesMean(Column(europe_data, "balance_index"))
        claim_2_valid == FloatGt(europe_balance_mean, Frac(4, 10))
        dem_corr ==
            CorrelationOf(results.correlations, "democratic_participation_index").r
        inn_corr ==
            CorrelationOf(results.correlations, "innovation_capacity_index").r
        claim_3_valid ==
            FloatGt(dem_corr, Frac(6, 10)) /\ FloatGt(inn_corr, Frac(8, 10))
        eta_squared == results.anova[3]
        claim_4_valid == FloatGt(eta_squared, Frac(9, 10))
        validation_results ==
            << [key |-> "asia_extreme_stem",
                claim |-> "Asia exhibits extreme STEM emphasis (>43% STEM, Balance Index <0.2)",
                data |-> <<asia_stem_mean, asia_balance_mean>>,
                valid |-> claim_1_valid],
               [key |-> "europe_balanced",
                claim |-> "Europe maintains balanced approach (Balance Index >0.4)",
                data |-> <<europe_balance_mean>>,
                valid |-> claim_2_valid],
               [key |-> "strong_correlations",
                claim |-> "Strong correlations with democratic (>0.6) and innovation (>0.8) outcomes",
                data |-> <<dem_corr, inn_corr>>,
                valid |-> claim_3_valid],
               [key |-> "high_predictive_power",
                claim |-> "High predictive power (eta squared > 0.9)",
                data |-> <<eta_squared>>,
                valid |-> claim_4_valid] >>
    IN  IF csv.raised # "none" THEN [raised |-> csv.raised]
        ELSE [raised |-> "none",
              validation_results |-> validation_results,
              all_valid |-> all_valid_of(validation_results)]

----------------------------------------------------------------------------
(* reproduce_results.py: the other phases and run_complete_reproduction *)

\* validate_data_integrity(): each file is probed under os.path.exists; the
\* summary then reads the main file without a guard.
validate_data_integrity(files) ==
    LET status(file) == IF file = Missing THEN "MISSING" ELSE "VALID"
    IN  IF read_csv(files.main).raised # "none"
        THEN [raised |-> read_csv(files.main).raised]
        ELSE [raised |-> "none",
              validation_results |-> [main |-> status(files.main),
                                      ts |-> status(files.ts)]]

\* generate_publication_figures(): FigureGenerator loads the files as the
\* analyzer does and draws the five figures; drawing is outside the model and
\* either completes or raises (renders), and cannot complete on a missing table.
generate_publication_figures(files, renders) ==
    IF files.main = Missing \/ files.ts = Missing THEN [raised |-> "TypeError"]
    ELSE IF ~renders THEN [raised |-> "Exception"]
    ELSE [raised |-> "none", value |-> TRUE]

\* generate_supplementary_materials(): the correlation matrix plot when there
\* is an analyzer, then the regional summary of the main file read again.
generate_supplementary_materials(files, analyzer, renders) ==
    IF analyzer # "None" /\ ~renders THEN [raised |-> "Exception"]
    ELSE IF read_csv(files.main).raised # "none"
    THEN [raised |-> read_csv(files.main).raised]
    ELSE [raised |-> "none", value |-> TRUE]

\* generate_final_report(): the lines of reproduction_report.txt that depend on
\* all_claims_valid.
generate_final_report(validation_results, all_claims_valid, results) ==
    [report_file |-> "reproduction_report.txt",
     written |->
        << IF all_claims_valid THEN "REPRODUCTION STATUS: SUCCESS"
           ELSE "REPRODUCTION STATUS: ISSUES DETECTED",
           IF all_claims_valid
           THEN "All manuscript claims validated and results reproduced successfully."
           ELSE "Some claims require verification - see details above." >>]

\* run_complete_reproduction(): the phases in order under one try; any
\* exception gives (False, None), the end of the try gives (True, report_file).
\* written collects, in order, the statements the phases print or write.
run_complete_reproduction(files, checks_inputs, figures_render, matrix_renders) ==
    LET data_validation == validate_data_integrity(files)
        figure_success == generate_publication_figures(files, figures_render)
        supp_success ==
            generate_supplementary_materials(files, "constructed", matrix_renders)
        Failed(phases, raised, stats, checked, written) ==
            [success |-> FALSE, report_file |-> None, phases |-> phases,
             raised |-> raised, stats |-> stats, claims |-> checked,
             written |-> written]
    IN  IF data_validation.raised # "none"
        THEN Failed(<<>>, data_validation.raised, NoCall, NoCall, <<>>)
        ELSE
    Bind(reproduce_statistical_results(files, checks_inputs), LAMBDA results :
        IF results.raised # "none"
        THEN Failed(<<"data">>, results.raised, results, NoCall, results.written)
        ELSE IF figure_success.raised # "none"
        THEN Failed(<<"data", "statistics">>, figure_success.raised, results,
                    NoCall, results.written)
        ELSE
    Bind(validate_manuscript_claims(files, results), LAMBDA claims :
        IF claims.raised # "none"
        THEN Failed(<<"data", "statistics", "figures">>, claims.raised, results,
                    claims, results.written)
        ELSE IF supp_success.raised # "none"
        THEN Failed(<<"data", "statistics", "figures", "claims">>,
                    supp_success.raised, results, claims,
                    results.written \o <<"MANUSCRIPT CLAIMS VALIDATION:">>)
        ELSE
    Bind(generate_final_report(claims.validation_results, claims.all_valid, results),
         LAMBDA report :
             [success |-> TRUE, report_file |-> report.report_file,
              phases |-> <<"data", "statistics", "figures", "claims",
                           "supplementary", "report">>,
              raised |-> "none", stats |-> results, claims |-> claims,
              written |-> results.written \o <<"MANUSCRIPT CLAIMS VALIDATION:">>
                              \o report.written])))

\* __main__: what the script announces for the success flag it gets back.
announcement(success) ==
    IF success
    THEN <<"REPRODUCTION COMPLETED SUCCESSFULLY",
           "All results validated and ready for Nature Human Behaviour submission">>
    ELSE <<"REPRODUCTION FAILED">>

----------------------------------------------------------------------------
(* The calls a client of the analyzer and of ManuscriptReproducer makes *)

\* What the last call of one analysis within a sequence of calls leaves as that
\* analysis's latest outcome; old when the sequence never called it.
LatestOut(result, name, old) ==
    LET made == {i \in 1..Len(result.calls) : result.calls[i] = name}
    IN  IF made = {} THEN old
        ELSE [op |-> name] @@ result.rets[CHOOSE i \in made : \A j \in made : j <= i]

\* What a reproduce_statistical_results call hands back to its caller: the
\* returned dict or the exception, with the calls it made and what they gave.
Handed(results) ==
    [op |-> "reproduce_statistical_results"]
        @@ [f \in DOMAIN results \ {"self"} |-> results[f]]

\* The part of stats_results that validate_manuscript_claims can read.
Statistics(results) ==
    [correlations |-> results.correlations, anova |-> results.anova,
     ds_ratio |-> results.ds_ratio]

\* analysis.generate_summary_report() on the loaded analyzer.
GenerateSummaryReport ==
    /\ stats_analyzer = "constructed"
    /\ \E report \in {generate_summary_report(
                             [main_data |-> main_data,
                              time_series_data |-> time_series_data], scipy_checks)} :
           /\ corr_out' = LatestOut(report, "correlation_analysis", corr_out)
           /\ anova_out' = LatestOut(report, "anova_analysis", anova_out)
           /\ trend_out' = LatestOut(report, "time_series_analysis", trend_out)
           /\ ratio_out' = LatestOut(report, "digital_stratification_ratio", ratio_out)
    /\ UNCHANGED <<obj, out, main_data, time_series_data>>
    /\ UNCHANGED reproducerVars

\* reproducer.reproduce_statistical_results(): the analyzer it constructs
\* replaces stats_analyzer, loaded from the files as they are now.
ReproduceStatisticalResults ==
    /\ \E results \in {reproduce_statistical_results(data_files, scipy_checks)} :
           /\ stats_analyzer' = "constructed"
           /\ main_data' = results.self.main_data
           /\ time_series_data' = results.self.time_series_data
           /\ corr_out' = LatestOut(results, "correlation_analysis", corr_out)
           /\ anova_out' = LatestOut(results, "anova_analysis", anova_out)
           /\ trend_out' = LatestOut(results, "time_series_analysis", trend_out)
           /\ ratio_out' = LatestOut(results, "digital_stratification_ratio", ratio_out)
           /\ stats_results' = Handed(results)
    /\ UNCHANGED <<obj, out, scipy_checks, data_files, validation, run_out>>

\* reproducer.validate_manuscript_claims(stats_results), with the dict that the
\* latest reproduce_statistical_results call returned.
ValidateManuscriptClaims ==
    /\ stats_results.op = "reproduce_statistical_results"
    /\ stats_results.raised = "none"
    /\ validation' = [op |-> "validate_manuscript_claims",
                      stats_results |-> Statistics(stats_results)]
                        @@ validate_manuscript_claims(data_files, stats_results)
    /\ UNCHANGED <<obj, out, main_data, anova_out, time_series_data, ratio_out,
                   corr_out, trend_out, scipy_checks, data_files, stats_analyzer,
                   stats_results, run_out>>

\* The environment: the main file is rewritten, or removed, by another
\* program, once after the analyzer has loaded it.
WriteDataFile ==
    /\ data_files.main = main_data
    /\ \E table \in MainTables \cup {Missing} :
        /\ table # data_files.main
        /\ data_files' = [data_files EXCEPT !.main = table]
    /\ UNCHANGED <<obj, out, main_data, anova_out, time_series_data, ratio_out,
                   corr_out, trend_out, scipy_checks, stats_analyzer,
                   stats_results, validation, run_out>>

\* python reproduce_results.py: run_complete_reproduction() and the
\* announcement of the script, as the one pipeline run of a process.
RunCompleteReproduction ==
    /\ run_out = NoCall
    /\ stats_results = NoCall
    /\ \E figures_render \in BOOLEAN, matrix_renders \in BOOLEAN :
        \E run \in {run_complete_reproduction(data_files, scipy_checks,
                                              figures_render, matrix_renders)} :
        LET called == run.stats # NoCall
        IN  /\ stats_analyzer' = IF called THEN "constructed" ELSE stats_analyzer
            /\ main_data' = IF called THEN run.stats.self.main_data ELSE main_data
            /\ time_series_data' =
                   IF called THEN run.stats.self.time_series_data
                   ELSE time_series_data
            /\ corr_out' =
                   IF called THEN LatestOut(run.stats, "correlation_analysis", corr_out)
                   ELSE corr_out
            /\ anova_out' =
                   IF called THEN LatestOut(run.stats, "anova_analysis", anova_out)
                   ELSE anova_out
            /\ trend_out' =
                   IF called THEN LatestOut(run.stats, "time_series_analysis", trend_out)
                   ELSE trend_out
            /\ ratio_out' =
                   IF called
                   THEN LatestOut(run.stats, "digital_stratification_ratio", ratio_out)
                   ELSE ratio_out
            /\ stats_results' = IF called THEN Handed(run.stats) ELSE stats_results
            /\ validation' =
                   IF run.claims = NoCall THEN validation
                   ELSE [op |-> "validate_manuscript_claims",
                         stats_results |-> Statistics(run.stats)] @@ run.claims
            /\ run_out' = [op |-> "run_complete_reproduction",
                           success |-> run.success,
                           report_file |-> run.report_file,
                           phases |-> run.phases,
                           raised |-> run.raised,
                           written |-> run.written \o announcement(run.success)]
    /\ UNCHANGED <<obj, out, scipy_checks, data_files>>

\* An analyzer already constructed from the two files, its methods called in
\* any order and any number of times.
InitSession ==
    /\ obj = NoObject
    /\ out = NoCall
    /\ scipy_checks \in BOOLEAN
    /\ data_files \in [main : SessionTables, ts : {TsTable(2016)}]
    /\ main_data = load_data(data_files).main_data
    /\ time_series_data = load_data(data_files).time_series_data
    /\ stats_analyzer = "constructed"
    /\ anova_out = NoCall
    /\ ratio_out = NoCall
    /\ corr_out = NoCall
    /\ trend_out = NoCall
    /\ stats_results = NoCall
    /\ validation = NoCall
    /\ run_out = NoCall

NextSession ==
    \/ CorrelationAnalysis
    \/ AnovaAnalysis
    \/ DigitalStratificationRatio
    \/ TimeSeriesAnalysis
    \/ GenerateSummaryReport
    \/ ReproduceStatisticalResults

SpecSession == InitSession /\ [][NextSession]_vars

\* A ManuscriptReproducer over two files that exist and do not change.
InitValidate ==
    /\ obj = NoObject
    /\ out = NoCall
    /\ scipy_checks \in BOOLEAN
    /\ data_files \in [main : MainTables, ts : TsTables]
    /\ main_data = None
    /\ time_series_data = None
    /\ stats_analyzer = "None"
    /\ anova_out = NoCall
    /\ ratio_out = NoCall
    /\ corr_out = NoCall
    /\ trend_out = NoCall
    /\ stats_results = NoCall
    /\ validation = NoCall
    /\ run_out = NoCall

NextValidate == ReproduceStatisticalResults \/ ValidateManuscriptClaims

SpecValidate == InitValidate /\ [][NextValidate]_vars

\* A ManuscriptReproducer over files that can be missing and can change: the
\* statistics reproduced once and then validated any number of times, or the
\* whole script run once.
InitRepro ==
    /\ obj = NoObject
    /\ out = NoCall
    /\ scipy_checks \in BOOLEAN
    /\ data_files \in [main : MainTables \cup {Missing}, ts : TsTables \cup {Missing}]
    /\ main_data = None
    /\ time_series_data = None
    /\ stats_analyzer = "None"
    /\ anova_out = NoCall
    /\ ratio_out = NoCall
    /\ corr_out = NoCall
    /\ trend_out = NoCall
    /\ stats_results = NoCall
    /\ validation = NoCall
    /\ run_out = NoCall

NextRepro ==
    \/ run_out = NoCall /\ stats_results = NoCall /\ ReproduceStatisticalResults
    \/ run_out = NoCall /\ ValidateManuscriptClaims
    \/ run_out = NoCall /\ WriteDataFile
    \/ RunCompleteReproduction

SpecRepro == InitRepro /\ [][NextRepro]_vars

----------------------------------------------------------------------------
(* Properties of validate_manuscript_claims, checked under SpecValidate *)

ValidationCalled == validation.op = "validate_manuscript_claims"
ValidationReturned == ValidationCalled /\ validation.raised = "none"
ClaimOrder ==
    <<"asia_extreme_stem", "europe_balanced", "strong_correlations",
      "high_predictive_power">>
\* The valid flag of the claim result stored under key.
ValidOf(results, key) ==
    results[CHOOSE i \in 1..Len(results) : results[i].key = key].valid
NumberValid(results) ==
    Cardinality({i \in 1..Len(results) : results[i].valid})

\* C21: validate_manuscript_claims gives one claim result per predicate, in
\* the order asia_extreme_stem, europe_balanced, strong_correlations,
\* high_predictive_power, and the overall flag it returns is true exactly when
\* the valid flag of every claim is true.
C21_ClaimsInOrderAndConjoined ==
    ValidationReturned =>
        /\ Len(validation.validation_results) = Len(ClaimOrder)
        /\ \A i \in 1..Len(ClaimOrder) :
               validation.validation_results[i].key = ClaimOrder[i]
        /\ validation.all_valid =
               (NumberValid(validation.validation_results) = Len(ClaimOrder))

\* A validation that found some claims valid and one not.
C21_Witness ==
    /\ ValidationReturned
    /\ NumberValid(validation.validation_results) = Len(ClaimOrder) - 1
    /\ ~validation.all_valid

\* The mean of a column over the records of one region in the main file, and
\* the coefficient reproduce_statistical_results returned for a variable.
FileMean(region, column) ==
    LET rows == {i \in 1..Len(data_files.main) : data_files.main[i].region = region}
    IN  IF rows = {} THEN NaN
        ELSE Num(RQuot(SumOver(rows, [i \in rows |-> data_files.main[i][column]]),
                       RInt(Cardinality(rows))))
ReturnedR(var) == CorrelationOf(stats_results.correlations, var).r

\* C26: the valid flag of each claim is the predicate its claim text states:
\* asia_extreme_stem iff Asia's mean STEM% > 43 and mean Balance Index < 0.2,
\* europe_balanced iff Europe's mean Balance Index > 0.4, strong_correlations
\* iff democratic r > 0.6 and innovation r > 0.8, high_predictive_power iff
\* eta_squared > 0.9.
C26_ValidIsStatedPredicate ==
    ValidationReturned =>
        /\ ValidOf(validation.validation_results, "asia_extreme_stem") =
               (/\ FloatGt(FileMean("Asia", "stem_percent"), RInt(43))
                /\ FloatLt(FileMean("Asia", "balance_index"), Frac(2, 10)))
        /\ ValidOf(validation.validation_results, "europe_balanced") =
               FloatGt(FileMean("Europe", "balance_index"), Frac(4, 10))
        /\ ValidOf(validation.validation_results, "strong_correlations") =
               (/\ FloatGt(ReturnedR("democratic_participation_index"), Frac(6, 10))
                /\ FloatGt(ReturnedR("innovation_capacity_index"), Frac(8, 10)))
        /\ ValidOf(validation.validation_results, "high_predictive_power") =
               FloatGt(stats_results.anova[3], Frac(9, 10))

----------------------------------------------------------------------------
(* Properties of the pipeline, checked under SpecRepro *)

\* C22: the outcome of validate_manuscript_claims is determined by the
\* statistics results passed to it alone: a validation that follows another
\* with the same statistics results returns the same claims, whatever the data
\* files hold at the time.
C22_ValidationFromStatisticsOnly ==
    [][(/\ ValidationReturned
        /\ validation'.op = "validate_manuscript_claims"
        /\ validation'.raised = "none"
        /\ validation'.stats_results = validation.stats_results)
          => validation'.validation_results = validation.validation_results]_vars

RunReturned == run_out.op = "run_complete_reproduction"
SuccessStatements ==
    {"All key statistics successfully reproduced",
     "VALIDATION STATUS: ALL RESULTS SUCCESSFULLY REPRODUCED",
     "All manuscript claims validated and results reproduced successfully."}

\* C25: run_complete_reproduction returns success only if every manuscript
\* claim was found valid, and every statement of successful reproduction it
\* writes comes after the claims validation and only when all claims are valid.
C25_SuccessOnlyWhenValidated ==
    RunReturned =>
        /\ run_out.success => (ValidationReturned /\ validation.all_valid)
        /\ \A i \in 1..Len(run_out.written) :
               run_out.written[i] \in SuccessStatements =>
                   /\ \E j \in 1..(i - 1) :
                          run_out.written[j] = "MANUSCRIPT CLAIMS VALIDATION:"
                   /\ ValidationReturned /\ validation.all_valid

ReproduceCalled == stats_results.op = "reproduce_statistical_results"

\* C27: once DigitalStratificationAnalysis is constructed both tables are
\* loaded (a failed load raises from the constructor instead), so no method of
\* the analyzer runs while main_data or time_series_data is still None.
C27_NoAnalysisOnUnloadedData ==
    (ReproduceCalled /\ stats_analyzer = "constructed"
        /\ Len(stats_results.calls) > 0) =>
            main_data # None /\ time_series_data # None

----------------------------------------------------------------------------
(* Properties of the analyzer's methods, checked under SpecSession *)

\* What the k-th call of a reproduce_statistical_results gave.
RetOf(results, k) == results.rets[k]

BalanceOf(row) ==
    IF RMax(row.stem_percent, row.humanities_percent) = Zero THEN Zero
    ELSE RQuot(RMin(row.stem_percent, row.humanities_percent),
               RMax(row.stem_percent, row.humanities_percent))

\* C24: the balance_index that correlation_analysis and anova_analysis use for
\* a record is the Balance Index of that record's stem_percent and
\* humanities_percent: no record is analyzed with a balance_index that
\* disagrees with its own percentages.
C24_BalanceIndexFromPercentages ==
    (corr_out.op = "correlation_analysis" \/ anova_out.op = "anova_analysis") =>
        \A i \in 1..Len(main_data) :
            main_data[i].balance_index = BalanceOf(main_data[i])

=============================================================================
